---------------------------- MODULE Spec2Model ----------------------------
(***************************************************************************)
(* Finite-difference gradient descent (Maurdekye/regression).              *)
(*                                                                         *)
(* src/src/regressors.rs : the GradientDescent implementations (Linear,    *)
(*                         Exponential, Polynomial, ScaledTranslated-      *)
(*                         Equation, ParametricScaledTranslatedEquation).  *)
(* src/src/main.rs       : the GradientDescent trait, Magnitude for        *)
(*                         [f64; N], and the descent loop of run().        *)
(*                                                                         *)
(* f64 is modelled by a small binary format with the same structure: a     *)
(* value is <<n, d>>,                                                      *)
(*   d > 0   : the finite value n/d in lowest terms, a multiple of 1/Scale *)
(*             of absolute value at most MaxFloat,                         *)
(*   <<1,0>> : +infinity,  <<-1,0>> : -infinity,  <<0,0>> : NaN.           *)
(* Every operation rounds its exact result to the nearest multiple of      *)
(* 1/Scale (sqrt rounds down) and overflows to an infinity past MaxFloat.  *)
(* The non-finite values follow IEEE 754: NaN propagates, every comparison *)
(* with NaN is false, x/0 is an infinity and 0/0 is NaN.  Signed zeros are *)
(* not distinguished.                                                      *)
(***************************************************************************)
EXTENDS Integers, Sequences, FiniteSets, TLC

(***************************************************************************)
(* Bounds of the model.                                                    *)
(***************************************************************************)
\* iterations of the descent loop that are explored (the loop has no cap)
MaxIter == 2
\* descend calls explored per model by the API specification
MaxDescend == 2
\* longest vector handed to magnitude by the API specification
MaxLen == 3
\* fraction bits of the number format: finite values are multiples of 1/Scale
FractionBits == 4
\* range of the number format: finite values lie in -MaxFloat..MaxFloat
ExponentBits == 8

Scale == 2 ^ FractionBits
MaxFloat == 2 ^ ExponentBits

(***************************************************************************)
(* f64 arithmetic                                                          *)
(***************************************************************************)
RECURSIVE Gcd(_, _)
Gcd(a, b) == IF b = 0 THEN a ELSE Gcd(b, a % b)

Lcm(a, b) == (a \div Gcd(a, b)) * b

IAbs(n) == IF n < 0 THEN -n ELSE n

Sgn(n) == IF n > 0 THEN 1 ELSE IF n < 0 THEN -1 ELSE 0

NaN == <<0, 0>>
PosInf == <<1, 0>>
NegInf == <<-1, 0>>

\* the value of the format that q/Scale denotes: overflow to an infinity,
\* otherwise lowest terms
Grid(q) ==
    IF IAbs(q) > MaxFloat * Scale THEN <<Sgn(q), 0>>
    ELSE LET g == Gcd(IAbs(q), Scale) IN <<q \div g, Scale \div g>>

\* n/d rounded to the format (ties away from zero); d = 0 gives the IEEE
\* result of the division n/0
F(n, d) ==
    IF d = 0 THEN <<Sgn(n), 0>>
    ELSE LET g == Gcd(IAbs(d), Scale)
             num == IAbs(n) * (Scale \div g)
             den == IAbs(d) \div g
         IN  Grid(Sgn(n) * Sgn(d) * ((2 * num + den) \div (2 * den)))

Zero == F(0, 1)
One == F(1, 1)

IsNaN(a) == a = NaN
IsInf(a) == a[2] = 0 /\ a[1] # 0
IsFinite(a) == a[2] > 0

Neg(a) == <<-a[1], a[2]>>

Add(a, b) ==
    IF IsNaN(a) \/ IsNaN(b) THEN NaN
    ELSE IF IsInf(a) /\ IsInf(b) THEN (IF a = b THEN a ELSE NaN)
    ELSE IF IsInf(a) THEN a
    ELSE IF IsInf(b) THEN b
    ELSE LET l == Lcm(a[2], b[2])
         IN  F(a[1] * (l \div a[2]) + b[1] * (l \div b[2]), l)

Sub(a, b) == Add(a, Neg(b))

Mul(a, b) ==
    IF IsNaN(a) \/ IsNaN(b) THEN NaN
    ELSE IF IsInf(a) \/ IsInf(b) THEN <<Sgn(a[1]) * Sgn(b[1]), 0>>
    ELSE LET g == Gcd(IAbs(a[1]), b[2])
             h == Gcd(IAbs(b[1]), a[2])
         IN  F((a[1] \div g) * (b[1] \div h), (a[2] \div h) * (b[2] \div g))

Div(a, b) ==
    IF IsNaN(a) \/ IsNaN(b) THEN NaN
    ELSE IF IsInf(b) THEN (IF IsInf(a) THEN NaN ELSE Zero)
    ELSE IF IsInf(a) THEN <<Sgn(a[1]) * (IF b[1] < 0 THEN -1 ELSE 1), 0>>
    ELSE IF b[1] = 0 THEN <<Sgn(a[1]), 0>>
    ELSE LET g == Gcd(IAbs(a[1]), IAbs(b[1]))
             h == Gcd(a[2], b[2])
         IN  F((a[1] \div g) * (b[2] \div h), (a[2] \div h) * (b[1] \div g))

Abs(a) == <<IAbs(a[1]), a[2]>>

\* a < b and a <= b; false whenever an operand is NaN
Lt(a, b) ==
    /\ ~IsNaN(a)
    /\ ~IsNaN(b)
    /\ a # b
    /\ IF a = NegInf \/ b = PosInf THEN TRUE
       ELSE IF a = PosInf \/ b = NegInf THEN FALSE
       ELSE LET l == Lcm(a[2], b[2])
            IN  a[1] * (l \div a[2]) < b[1] * (l \div b[2])

Le(a, b) == ~IsNaN(a) /\ ~IsNaN(b) /\ (a = b \/ Lt(a, b))

\* floor of the square root of a natural number, by bisection
RECURSIVE ISqrtIn(_, _, _)
ISqrtIn(n, lo, hi) ==
    IF lo >= hi THEN lo
    ELSE LET mid == (lo + hi + 1) \div 2
         IN  IF mid * mid <= n THEN ISqrtIn(n, mid, hi) ELSE ISqrtIn(n, lo, mid - 1)

RECURSIVE ISqrtHi(_, _)
ISqrtHi(n, h) == IF h * h > n THEN h ELSE ISqrtHi(n, 2 * h)

ISqrt(n) == ISqrtIn(n, 0, ISqrtHi(n, 1))

\* the integer a * Scale of a finite value a
Scaled(a) == a[1] * (Scale \div a[2])

\* f64::sqrt, rounded down to the format
Sqrt(a) ==
    IF IsNaN(a) THEN NaN
    ELSE IF a = PosInf THEN PosInf
    ELSE IF a[1] < 0 THEN NaN
    ELSE Grid(ISqrt(Scaled(a) * Scale))

\* f64::hypot: sqrt(a^2 + b^2) without overflow of the squares; an infinite
\* operand gives +infinity even beside a NaN
Hypot(a, b) ==
    IF IsInf(a) \/ IsInf(b) THEN PosInf
    ELSE IF IsNaN(a) \/ IsNaN(b) THEN NaN
    ELSE Grid(ISqrt(Scaled(a) * Scaled(a) + Scaled(b) * Scaled(b)))

\* f64::powi with a natural exponent: x^0 is 1 for every x, NaN included
RECURSIVE Powi(_, _)
Powi(x, k) == IF k = 0 THEN One ELSE Mul(x, Powi(x, k - 1))

\* f64::powf, on the integral exponents the model's inputs are drawn from
Powf(x, e) ==
    IF e[1] >= 0 THEN Powi(x, e[1])
    ELSE Div(One, Powi(x, -e[1]))

(***************************************************************************)
(* The GradientDescent implementations (src/src/regressors.rs).            *)
(*                                                                         *)
(* A model is a record holding its variant (kind) and the fields of the    *)
(* struct.  nudge: Option<(usize, f64)> is None or Some(i, epsilon), with  *)
(* the source's 0-based parameter index; input is the array <<x>>.  A call *)
(* of predict either returns the array [output] or panics.                 *)
(***************************************************************************)
None == <<>>
Some(n, epsilon) == <<n, epsilon>>

Returned(v) == [panic |-> FALSE, value |-> <<v>>]
Panicked == [panic |-> TRUE, value |-> <<>>]

Linear(slope, y_intercept) ==
    [kind |-> "Linear", slope |-> slope, y_intercept |-> y_intercept]

Exponential(base, growth) ==
    [kind |-> "Exponential", base |-> base, growth |-> growth]

Polynomial(terms) == [kind |-> "Polynomial", terms |-> terms]

ScaledTranslatedEquation(x_0, y_0, width, height) ==
    [kind |-> "ScaledTranslatedEquation",
     x_0 |-> x_0, y_0 |-> y_0, width |-> width, height |-> height]

ParametricScaledTranslatedEquation(x_0, y_0, width, height, parameters) ==
    [kind |-> "ParametricScaledTranslatedEquation",
     x_0 |-> x_0, y_0 |-> y_0, width |-> width, height |-> height,
     parameters |-> parameters]

\* The wrapped functions are type parameters of the two equation structs (any
\* Fn(f64) -> f64, any Fn(f64, [f64; P]) -> f64).  The model instantiates
\* them with rational functions; function_p keeps the shape of the closure
\* run() passes (0 for x <= 0, a two-parameter curve for x > 0).
function(x) == Mul(x, x)

function_p(x, p) ==
    IF Le(x, Zero) THEN Zero
    ELSE Add(Mul(p[1], x), Mul(p[2], Mul(x, x)))

\* iter().sum() of a sequence of f64, starting from 0.0
RECURSIVE SumTo(_, _)
SumTo(s, n) == IF n = 0 THEN Zero ELSE Add(SumTo(s, n - 1), s[n])

Sum(s) == SumTo(s, Len(s))

PARAM_DIMENSION(m) ==
    CASE m.kind = "Linear" -> 2
      [] m.kind = "Exponential" -> 2
      [] m.kind = "Polynomial" -> Len(m.terms)
      [] m.kind = "ScaledTranslatedEquation" -> 4
      [] m.kind = "ParametricScaledTranslatedEquation" -> 4 + Len(m.parameters)

Linear_predict(m, nudge, input) ==
    IF nudge = None
    THEN Returned(Add(Mul(m.slope, input[1]), m.y_intercept))
    ELSE IF nudge[1] = 0
    THEN Returned(Add(Mul(Add(m.slope, nudge[2]), input[1]), m.y_intercept))
    ELSE IF nudge[1] = 1
    THEN Returned(Add(Add(Mul(m.slope, input[1]), m.y_intercept), nudge[2]))
    ELSE Panicked

Exponential_predict(m, nudge, input) ==
    IF nudge = None
    THEN Returned(Mul(m.base, Powf(m.growth, input[1])))
    ELSE IF nudge[1] = 0
    THEN Returned(Mul(Add(m.base, nudge[2]), Powf(m.growth, input[1])))
    ELSE IF nudge[1] = 1
    THEN Returned(Mul(m.base, Powf(Add(m.growth, nudge[2]), input[1])))
    ELSE Panicked

Polynomial_predict(m, nudge, input) ==
    IF nudge = None
    THEN Returned(Sum([k \in 1..Len(m.terms) |->
                        Mul(m.terms[k], Powi(input[1], k - 1))]))
    ELSE Returned(Sum([k \in 1..Len(m.terms) |->
                        Mul(IF k - 1 = nudge[1]
                            THEN Add(m.terms[k], nudge[2])
                            ELSE m.terms[k],
                            Powi(input[1], k - 1))]))

ScaledTranslatedEquation_predict(m, nudge, input) ==
    LET x == input[1]
    IN  IF nudge = None
        THEN Returned(Add(Mul(function(Div(Sub(x, m.x_0), m.width)), m.height),
                          m.y_0))
        ELSE IF nudge[1] = 0
        THEN Returned(Add(Mul(function(Div(Add(Sub(x, m.x_0), nudge[2]), m.width)),
                              m.height),
                          m.y_0))
        ELSE IF nudge[1] = 1
        THEN Returned(Add(Mul(function(Div(Sub(x, m.x_0), m.width)), m.height),
                          Add(m.y_0, nudge[2])))
        ELSE IF nudge[1] = 2
        THEN Returned(Add(Mul(function(Div(Sub(x, m.x_0), Add(m.width, nudge[2]))),
                              m.height),
                          m.y_0))
        ELSE IF nudge[1] = 3
        THEN Returned(Add(Mul(function(Div(Sub(x, m.x_0), m.width)),
                              Add(m.height, nudge[2])),
                          m.y_0))
        ELSE Panicked

ParametricScaledTranslatedEquation_predict(m, nudge, input) ==
    LET x == input[1]
    IN  IF nudge = None
        THEN Returned(Add(Mul(function_p(Div(Sub(x, m.x_0), m.width), m.parameters),
                              m.height),
                          m.y_0))
        ELSE IF nudge[1] = 0
        THEN Returned(Add(Mul(function_p(Div(Add(Sub(x, m.x_0), nudge[2]), m.width),
                                         m.parameters),
                              m.height),
                          m.y_0))
        ELSE IF nudge[1] = 1
        THEN Returned(Add(Mul(function_p(Div(Sub(x, m.x_0), m.width), m.parameters),
                              m.height),
                          Add(m.y_0, nudge[2])))
        ELSE IF nudge[1] = 2
        THEN Returned(Add(Mul(function_p(Div(Sub(x, m.x_0), Add(m.width, nudge[2])),
                                         m.parameters),
                              m.height),
                          m.y_0))
        ELSE IF nudge[1] = 3
        THEN Returned(Add(Mul(function_p(Div(Sub(x, m.x_0), m.width), m.parameters),
                              Add(m.height, nudge[2])),
                          m.y_0))
        ELSE \* Some((n, epsilon)): new_parameters[n - 4] is bounds-checked
             IF nudge[1] - 4 >= Len(m.parameters) THEN Panicked
             ELSE LET new_parameters ==
                          [m.parameters EXCEPT
                              ![nudge[1] - 4 + 1] = Add(@, nudge[2])]
                  IN  Returned(Add(Mul(function_p(Div(Sub(x, m.x_0), m.width),
                                                  new_parameters),
                                       Add(m.height, nudge[2])),
                                   m.y_0))

predict(m, nudge, input) ==
    CASE m.kind = "Linear" -> Linear_predict(m, nudge, input)
      [] m.kind = "Exponential" -> Exponential_predict(m, nudge, input)
      [] m.kind = "Polynomial" -> Polynomial_predict(m, nudge, input)
      [] m.kind = "ScaledTranslatedEquation" ->
            ScaledTranslatedEquation_predict(m, nudge, input)
      [] m.kind = "ParametricScaledTranslatedEquation" ->
            ParametricScaledTranslatedEquation_predict(m, nudge, input)

Linear_descend(m, adjustments) ==
    [m EXCEPT !.slope = Add(@, adjustments[1]),
              !.y_intercept = Add(@, adjustments[2])]

Exponential_descend(m, adjustments) ==
    [m EXCEPT !.base = Add(@, adjustments[1]),
              !.growth = Add(@, adjustments[2])]

Polynomial_descend(m, adjustments) ==
    [m EXCEPT !.terms = [k \in 1..Len(m.terms) |->
                            Add(m.terms[k], adjustments[k])]]

ScaledTranslatedEquation_descend(m, adjustments) ==
    [m EXCEPT !.x_0 = Add(@, adjustments[1]),
              !.y_0 = Add(@, adjustments[2]),
              !.width = Add(@, adjustments[3]),
              !.height = Add(@, adjustments[4])]

\* fault injection: the loop over the extra parameters stops one short
ParametricScaledTranslatedEquation_descend_short(m, adjustments) ==
    [m EXCEPT !.x_0 = Add(@, adjustments[1]),
              !.y_0 = Add(@, adjustments[2]),
              !.width = Add(@, adjustments[3]),
              !.height = Add(@, adjustments[4]),
              !.parameters = [k \in 1..Len(m.parameters) |->
                                 IF k < Len(m.parameters)
                                 THEN Add(m.parameters[k], adjustments[4 + k])
                                 ELSE m.parameters[k]]]

ParametricScaledTranslatedEquation_descend(m, adjustments) ==
    [m EXCEPT !.x_0 = Add(@, adjustments[1]),
              !.y_0 = Add(@, adjustments[2]),
              !.width = Add(@, adjustments[3]),
              !.height = Add(@, adjustments[4]),
              !.parameters = [k \in 1..Len(m.parameters) |->
                                 Add(m.parameters[k], adjustments[4 + k])]]

descend(m, adjustments) ==
    CASE m.kind = "Linear" -> Linear_descend(m, adjustments)
      [] m.kind = "Exponential" -> Exponential_descend(m, adjustments)
      [] m.kind = "Polynomial" -> Polynomial_descend(m, adjustments)
      [] m.kind = "ScaledTranslatedEquation" ->
            ScaledTranslatedEquation_descend(m, adjustments)
      [] m.kind = "ParametricScaledTranslatedEquation" ->
            ParametricScaledTranslatedEquation_descend(m, adjustments)

(***************************************************************************)
(* Magnitude for [f64; N] (src/src/main.rs)                                *)
(***************************************************************************)
\* fault injection: the one-element case returns the absolute value
Magnitude_abs(self) ==
    CASE Len(self) = 0 -> Zero
      [] Len(self) = 1 -> Abs(self[1])
      [] Len(self) = 2 -> Hypot(self[1], self[2])
      [] OTHER -> Sqrt(Sum([k \in 1..Len(self) |-> Mul(self[k], self[k])]))

Magnitude(self) ==
    CASE Len(self) = 0 -> Zero
      [] Len(self) = 1 -> self[1]
      [] Len(self) = 2 -> Hypot(self[1], self[2])
      [] OTHER -> Sqrt(Sum([k \in 1..Len(self) |-> Mul(self[k], self[k])]))

(***************************************************************************)
(* The gradient estimate of one iteration of run() (src/src/main.rs)       *)
(***************************************************************************)
\* data.iter().map(|datum| { let delta = datum.1 - predict(nudge, [datum.0])[0];
\*                           delta * delta }).sum()
squared_error(m, nudge, data) ==
    Sum([k \in 1..Len(data) |->
            LET delta == Sub(data[k][2], predict(m, nudge, <<data[k][1]>>).value[1])
            IN  Mul(delta, delta)])

\* fault injection: the difference is taken the other way round
gradient_reversed(m, data, base_error, epsilon, nudge) ==
    Div(Sub(squared_error(m, Some(nudge, epsilon), data), base_error), epsilon)

\* one entry of array::from_fn(|nudge| ...)
gradient(m, data, base_error, epsilon, nudge) ==
    Div(Sub(base_error, squared_error(m, Some(nudge, epsilon), data)), epsilon)

\* fault injection: the test is written as !(magnitude.abs() > args.finish_threshold)
finished_not_above(mag, finish_threshold) == ~Lt(finish_threshold, Abs(mag))

\* magnitude.abs() <= args.finish_threshold
finished(mag, finish_threshold) == Le(Abs(mag), finish_threshold)

\* gradients.map(|x| x * args.temperature)
scaled(gradients, temperature) ==
    [k \in 1..Len(gradients) |-> Mul(gradients[k], temperature)]

(***************************************************************************)
(* State                                                                   *)
(***************************************************************************)
VARIABLES
    regressor,      \* the model being fitted (run: let mut regressor)
    initial,        \* history: the model as constructed
    total,          \* history: element-wise sum of all adjustments descended
    n_descend,      \* history: number of descend calls so far
    data,           \* the records of the data file
    args,           \* Args: epsilon, temperature, finish_threshold
    pc,             \* position of run()
    i,              \* iteration index of the loop
    base_error,     \* let base_error
    gradients,      \* let gradients, filled entry by entry by array::from_fn
    magnitude,      \* let magnitude
    should_finish,  \* let should_finish
    call            \* the last call made on the model's API (API specification)

vars == <<regressor, initial, total, n_descend, data, args, pc, i, base_error,
          gradients, magnitude, should_finish, call>>

loop_vars == <<data, args, pc, i, base_error, gradients, magnitude, should_finish>>

(***************************************************************************)
(* Inputs the model is explored on                                         *)
(***************************************************************************)
Models ==
    { Linear(F(2, 1), F(1, 1)),
      Linear(F(1, 1), F(0, 1)),
      Exponential(F(1, 1), F(2, 1)),
      Polynomial(<<F(1, 1)>>),
      Polynomial(<<F(1, 1), F(1, 1), F(1, 1)>>),
      ScaledTranslatedEquation(F(0, 1), F(0, 1), F(1, 1), F(1, 1)),
      ScaledTranslatedEquation(F(1, 1), F(-1, 1), F(2, 1), F(3, 1)),
      ParametricScaledTranslatedEquation(F(0, 1), F(1, 1), F(2, 1), F(2, 1),
                                         <<F(3, 2), F(4, 1)>>) }

PerfectLine == <<<<F(0, 1), F(1, 1)>>, <<F(1, 1), F(3, 1)>>,
                 <<F(2, 1), F(5, 1)>>, <<F(3, 1), F(7, 1)>>>>

Datasets ==
    { <<>>,
      PerfectLine,
      <<<<F(1, 1), F(2, 1)>>, <<F(2, 1), F(4, 1)>>, <<F(3, 1), F(6, 1)>>>>,
      <<<<F(1, 1), F(0, 1)>>, <<F(2, 1), F(1, 1)>>>> }

Arguments ==
    { [epsilon |-> F(1, 4), temperature |-> F(1, 4), finish_threshold |-> F(4, 1)],
      [epsilon |-> F(1, 2), temperature |-> F(1, 4), finish_threshold |-> F(1, 2)],
      [epsilon |-> F(1, 1), temperature |-> F(1, 1), finish_threshold |-> F(0, 1)],
      [epsilon |-> F(0, 1), temperature |-> F(1, 2), finish_threshold |-> F(1, 1)] }

Inputs == {F(-1, 1), F(0, 1), F(2, 1)}

Epsilons == {F(1, 2), F(-1, 1)}

\* nudges handed to predict: None, and Some((n, epsilon)) for every valid n and
\* the two indices past the end
Nudges(m) ==
    {None} \cup {Some(n, e) : n \in 0..(PARAM_DIMENSION(m) + 1), e \in Epsilons}

\* adjustment vectors of length n: two with pairwise distinct entries, and the
\* unit vectors
AdjustmentVectors(n) ==
    { [k \in 1..n |-> F(c * k, 2)] : c \in {1, -2} }
        \cup { [k \in 1..n |-> IF k = j THEN One ELSE Zero] : j \in 1..n }

\* entries of the vectors handed to magnitude; their squares are exact
Elements == {F(0, 1), F(-3, 1), F(4, 1), F(1, 2), F(-1, 4)}

RECURSIVE VectorsOfLen(_)
VectorsOfLen(n) ==
    IF n = 0 THEN {<<>>}
    ELSE {Append(v, e) : v \in VectorsOfLen(n - 1), e \in Elements}

Vectors == UNION {VectorsOfLen(n) : n \in 0..MaxLen}

NoCall == [op |-> "none", arg |-> <<>>, input |-> <<>>, result |-> Returned(Zero)]

ZeroVector(n) == [k \in 1..n |-> Zero]

VecAdd(u, v) == [k \in 1..Len(u) |-> Add(u[k], v[k])]

(***************************************************************************)
(* run(): the descent loop (src/src/main.rs)                               *)
(***************************************************************************)
Init ==
    /\ regressor \in Models
    /\ initial = regressor
    /\ total = ZeroVector(PARAM_DIMENSION(regressor))
    /\ n_descend = 0
    /\ data \in Datasets
    /\ args \in Arguments
    /\ pc = "load"
    /\ i = 0
    /\ base_error = Zero
    /\ gradients = <<>>
    /\ magnitude = Zero
    /\ should_finish = FALSE
    /\ call = NoCall

\* Reader::from_path(..)? or a record that does not deserialize: run returns Err
LoadFails ==
    /\ pc = "load"
    /\ pc' = "aborted"
    /\ UNCHANGED <<regressor, initial, total, n_descend, data, args, i, base_error,
                   gradients, magnitude, should_finish, call>>

\* the data is read; min_by(..).unwrap() panics on an empty file
Load ==
    /\ pc = "load"
    /\ pc' = IF data = <<>> THEN "panicked" ELSE "base"
    /\ UNCHANGED <<regressor, initial, total, n_descend, data, args, i, base_error,
                   gradients, magnitude, should_finish, call>>

\* the head of an iteration: let base_error = ...
BaseError ==
    /\ pc = "base"
    /\ i < MaxIter
    /\ base_error' = squared_error(regressor, None, data)
    /\ gradients' = <<>>
    /\ pc' = IF PARAM_DIMENSION(regressor) = 0 THEN "check" ELSE "grad"
    /\ UNCHANGED <<regressor, initial, total, n_descend, data, args, i, magnitude,
                   should_finish, call>>

\* array::from_fn computes the entries in index order
Gradient ==
    /\ pc = "grad"
    /\ gradients' = Append(gradients,
                           gradient(regressor, data, base_error, args.epsilon,
                                    Len(gradients)))
    /\ pc' = IF Len(gradients) + 1 = PARAM_DIMENSION(regressor) THEN "check" ELSE "grad"
    /\ UNCHANGED <<regressor, initial, total, n_descend, data, args, i, base_error,
                   magnitude, should_finish, call>>

\* let magnitude = ...; let should_finish = ...
Check ==
    /\ pc = "check"
    /\ magnitude' = Magnitude(gradients)
    /\ should_finish' = finished(Magnitude(gradients), args.finish_threshold)
    /\ pc' = "descend"
    /\ UNCHANGED <<regressor, initial, total, n_descend, data, args, i, base_error,
                   gradients, call>>

\* regressor.descend(gradients.map(|x| x * args.temperature))
Descend ==
    /\ pc = "descend"
    /\ regressor' = descend(regressor, scaled(gradients, args.temperature))
    /\ total' = VecAdd(total, scaled(gradients, args.temperature))
    /\ n_descend' = n_descend + 1
    /\ pc' = "report"
    /\ UNCHANGED <<initial, data, args, i, base_error, gradients, magnitude,
                   should_finish, call>>

\* if should_print || should_finish is false: on to the next iteration
ReportSkipped ==
    /\ pc = "report"
    /\ ~should_finish
    /\ pc' = "base"
    /\ i' = i + 1
    /\ UNCHANGED <<regressor, initial, total, n_descend, data, args, base_error,
                   gradients, magnitude, should_finish, call>>

\* the line is printed and the plot drawn; break if should_finish
Reported ==
    /\ pc = "report"
    /\ IF should_finish
       THEN pc' = "done" /\ i' = i
       ELSE pc' = "base" /\ i' = i + 1
    /\ UNCHANGED <<regressor, initial, total, n_descend, data, args, base_error,
                   gradients, magnitude, should_finish, call>>

\* root.fill(&WHITE)? fails: run returns Err
ReportFails ==
    /\ pc = "report"
    /\ pc' = "failed"
    /\ UNCHANGED <<regressor, initial, total, n_descend, data, args, i, base_error,
                   gradients, magnitude, should_finish, call>>

\* one of the unwrap()s of the plot fails
ReportPanics ==
    /\ pc = "report"
    /\ pc' = "panicked"
    /\ UNCHANGED <<regressor, initial, total, n_descend, data, args, i, base_error,
                   gradients, magnitude, should_finish, call>>

Next ==
    \/ LoadFails
    \/ Load
    \/ BaseError
    \/ Gradient
    \/ Check
    \/ Descend
    \/ ReportSkipped
    \/ Reported
    \/ ReportFails
    \/ ReportPanics

Spec == Init /\ [][Next]_vars

(***************************************************************************)
(* The GradientDescent API and magnitude, called directly                  *)
(***************************************************************************)
ApiInit ==
    /\ regressor \in Models
    /\ initial = regressor
    /\ total = ZeroVector(PARAM_DIMENSION(regressor))
    /\ n_descend = 0
    /\ data = <<>>
    /\ args = [epsilon |-> One, temperature |-> One, finish_threshold |-> Zero]
    /\ pc = "api"
    /\ i = 0
    /\ base_error = Zero
    /\ gradients = <<>>
    /\ magnitude = Zero
    /\ should_finish = FALSE
    /\ call = NoCall

CallPredict ==
    \E nudge \in Nudges(regressor), x \in Inputs :
        /\ call' = [op |-> "predict", arg |-> nudge, input |-> <<x>>,
                    result |-> predict(regressor, nudge, <<x>>)]
        /\ UNCHANGED <<regressor, initial, total, n_descend>>
        /\ UNCHANGED loop_vars

CallDescend ==
    /\ n_descend < MaxDescend
    /\ \E adjustments \in AdjustmentVectors(PARAM_DIMENSION(regressor)) :
        /\ regressor' = descend(regressor, adjustments)
        /\ total' = VecAdd(total, adjustments)
        /\ n_descend' = n_descend + 1
        /\ call' = [op |-> "descend", arg |-> adjustments, input |-> <<>>,
                    result |-> [panic |-> FALSE, value |-> <<>>]]
        /\ UNCHANGED initial
        /\ UNCHANGED loop_vars

CallMagnitude ==
    \E self \in Vectors :
        /\ call' = [op |-> "magnitude", arg |-> self, input |-> <<>>,
                    result |-> Returned(Magnitude(self))]
        /\ UNCHANGED <<regressor, initial, total, n_descend>>
        /\ UNCHANGED loop_vars

ApiNext ==
    \/ CallPredict
    \/ CallDescend

ApiSpec == ApiInit /\ [][ApiNext]_vars

MagnitudeNext == CallMagnitude

\* magnitude reads no model: one initial state is enough
MagnitudeInit == ApiInit /\ regressor = Linear(One, Zero)

MagnitudeSpec == MagnitudeInit /\ [][MagnitudeNext]_vars

(***************************************************************************)
(* The documented model: parameter order and closed-form predictions       *)
(***************************************************************************)
\* the parameter vector of a model, in the documented order
Theta(m) ==
    CASE m.kind = "Linear" -> <<m.slope, m.y_intercept>>
      [] m.kind = "Exponential" -> <<m.base, m.growth>>
      [] m.kind = "Polynomial" -> m.terms
      [] m.kind = "ScaledTranslatedEquation" -> <<m.x_0, m.y_0, m.width, m.height>>
      [] m.kind = "ParametricScaledTranslatedEquation" ->
            <<m.x_0, m.y_0, m.width, m.height>> \o m.parameters

\* the closed-form prediction of a variant at parameter vector theta
ClosedForm(kind, theta, x) ==
    CASE kind = "Linear" -> Add(Mul(theta[1], x), theta[2])
      [] kind = "Exponential" -> Mul(theta[1], Powf(theta[2], x))
      [] kind = "Polynomial" ->
            Sum([k \in 1..Len(theta) |-> Mul(theta[k], Powi(x, k - 1))])
      [] kind = "ScaledTranslatedEquation" ->
            Add(Mul(function(Div(Sub(x, theta[1]), theta[3])), theta[4]), theta[2])
      [] kind = "ParametricScaledTranslatedEquation" ->
            Add(Mul(function_p(Div(Sub(x, theta[1]), theta[3]),
                               SubSeq(theta, 5, Len(theta))),
                    theta[4]),
                theta[2])

\* theta with the parameter of 0-based index n increased by epsilon
Nudged(theta, n, epsilon) == [theta EXCEPT ![n + 1] = Add(@, epsilon)]

\* total squared error of the closed form at theta over the data
ClosedFormError(kind, theta, records) ==
    Sum([k \in 1..Len(records) |->
            LET delta == Sub(records[k][2], ClosedForm(kind, theta, records[k][1]))
            IN  Mul(delta, delta)])

AllNaN(theta) == \A k \in 1..Len(theta) : IsNaN(theta[k])

(***************************************************************************)
(* Claims                                                                  *)
(***************************************************************************)

\* C1: in the iteration whose |magnitude| <= finish_threshold the loop stops
\* without calling descend, so the parameters are left as the converging
\* gradient found them.
C1_CheckThenStep ==
    [][(pc = "descend" /\ should_finish)
          => (regressor' = regressor /\ n_descend' = n_descend)]_vars

\* C2: for every variant and every valid index n, predict(Some((n, epsilon)), x)
\* is the closed form with parameter n replaced by theta_n + epsilon.
C2_NudgeIsClosedForm ==
    (call.op = "predict" /\ call.arg # None /\ call.arg[1] < PARAM_DIMENSION(regressor))
        => call.result =
              Returned(ClosedForm(regressor.kind,
                                  Nudged(Theta(regressor), call.arg[1], call.arg[2]),
                                  call.input[1]))

\* C3: nudging extra parameter p_k of ParametricScaledTranslatedEquation (index
\* 4 + k) adds epsilon to p_k only: x_0, y_0, width and height are used as stored.
C3_NudgeOneExtraParameter ==
    (/\ call.op = "predict"
     /\ regressor.kind = "ParametricScaledTranslatedEquation"
     /\ call.arg # None
     /\ call.arg[1] >= 4
     /\ call.arg[1] < PARAM_DIMENSION(regressor))
        => call.result =
              Returned(Add(Mul(function_p(Div(Sub(call.input[1], regressor.x_0),
                                              regressor.width),
                                          [regressor.parameters EXCEPT
                                              ![call.arg[1] - 3] = Add(@, call.arg[2])]),
                               regressor.height),
                           regressor.y_0))

\* C4: after any sequence of descend calls every stored parameter is its initial
\* value plus the sum of its adjustments, and predict(None, x) is the closed form
\* at that parameter vector.
C4_DescendAddsAdjustments ==
    /\ Theta(regressor) = VecAdd(Theta(initial), total)
    /\ (call.op = "predict" /\ call.arg = None)
          => call.result =
                Returned(ClosedForm(initial.kind, VecAdd(Theta(initial), total),
                                    call.input[1]))

C4_Witness ==
    /\ n_descend = MaxDescend
    /\ regressor.kind = "ParametricScaledTranslatedEquation"
    /\ \A k \in 1..Len(total) : total[k] # Zero
    /\ call.op = "predict"
    /\ call.arg = None

\* C5: predict with a nudge index >= PARAM_DIMENSION fails and returns no value.
C5_OutOfRangeNudgeRejected ==
    (call.op = "predict" /\ call.arg # None /\ call.arg[1] >= PARAM_DIMENSION(regressor))
        => call.result.panic

\* C6: whenever increasing parameter n by epsilon > 0 strictly decreases the total
\* squared error, the estimated gradient entry n is strictly positive.
C6_GradientSign ==
    (pc \in {"check", "descend"} /\ Lt(Zero, args.epsilon))
        => \A n \in 0..(PARAM_DIMENSION(regressor) - 1) :
              Lt(ClosedFormError(regressor.kind,
                                 Nudged(Theta(regressor), n, args.epsilon), data),
                 ClosedFormError(regressor.kind, Theta(regressor), data))
                  => Lt(Zero, gradients[n + 1])

\* C7: magnitude is 0 for length 0, the element itself (signed) for length 1, and
\* the square root of the sum of squares for length >= 2 (to the precision of the
\* format: the largest multiple of 1/Scale whose square does not exceed the sum).
C7_Magnitude ==
    call.op = "magnitude"
        => LET self == call.arg
               r == call.result.value[1]
               squares == Sum([k \in 1..Len(self) |-> Mul(self[k], self[k])])
           IN  /\ ~call.result.panic
               /\ Len(self) = 0 => r = Zero
               /\ Len(self) = 1 => r = self[1]
               /\ Len(self) >= 2 =>
                     /\ IsFinite(r)
                     /\ r[1] >= 0
                     /\ Scaled(r) * Scaled(r) <= Scaled(squares) * Scale
                     /\ Scaled(squares) * Scale < (Scaled(r) + 1) * (Scaled(r) + 1)

C7_Witness ==
    /\ call.op = "magnitude"
    /\ Len(call.arg) = 1
    /\ Lt(call.arg[1], Zero)
    /\ call.result = Returned(call.arg[1])

\* C8: for the perfectly fit Linear model (slope 2, intercept 1 on the line
\* y = 2x + 1) whose first gradient is within the threshold, the loop ends at
\* iteration 0 with slope and intercept unchanged.
C8_PerfectFitUnchanged ==
    (initial = Linear(F(2, 1), F(1, 1)) /\ data = PerfectLine /\ pc = "done")
        => (i = 0 /\ regressor = initial)

\* the nudged and the base error of the current parameters, summed over the data
C9_NudgedError(n) ==
    Sum([k \in 1..Len(data) |->
            LET delta == Sub(data[k][2],
                             predict(regressor, Some(n, args.epsilon),
                                     <<data[k][1]>>).value[1])
            IN  Mul(delta, delta)])

C9_BaseError ==
    Sum([k \in 1..Len(data) |->
            LET delta == Sub(data[k][2],
                             predict(regressor, None, <<data[k][1]>>).value[1])
            IN  Mul(delta, delta)])

\* C9: gradient n of an iteration is (base_error - nudged_error_n) / epsilon, all
\* errors being sums of squared residuals over the whole data at one parameter
\* snapshot: descend runs at most once per iteration, and only after base_error
\* and every gradient entry of the iteration are computed.
C9_FrozenSnapshot ==
    /\ [](/\ pc \in {"check", "descend"} =>
                /\ Len(gradients) = PARAM_DIMENSION(regressor)
                /\ base_error = C9_BaseError
                /\ \A n \in 0..(PARAM_DIMENSION(regressor) - 1) :
                      gradients[n + 1] =
                          Div(Sub(base_error, C9_NudgedError(n)), args.epsilon)
          /\ pc \in {"base", "grad", "check", "descend"} => n_descend = i
          /\ n_descend <= i + 1)
    /\ [][(regressor' # regressor \/ n_descend' # n_descend)
             => (/\ pc = "descend"
                 /\ Len(gradients) = PARAM_DIMENSION(regressor)
                 /\ n_descend' = n_descend + 1
                 /\ regressor' = descend(regressor, scaled(gradients, args.temperature)))]_vars

C9_Witness ==
    /\ pc = "report"
    /\ i = 1
    /\ n_descend = 2
    /\ regressor # initial
    /\ \E k \in 1..Len(gradients) : IsFinite(gradients[k]) /\ gradients[k] # Zero

\* C10: a NaN gradient magnitude never satisfies the convergence check: the loop
\* stays running and applies the step; with NaN parameters (every later magnitude
\* NaN) the loop never converges.
C10_NaNNeverConverges ==
    /\ []((pc \in {"descend", "report", "done"} /\ IsNaN(magnitude))
             => (~should_finish /\ pc # "done"))
    /\ []((PARAM_DIMENSION(regressor) > 0 /\ AllNaN(Theta(regressor))) => pc # "done")
    /\ [][(pc = "descend" /\ IsNaN(magnitude))
             => (n_descend' = n_descend + 1 /\ pc' = "report")]_vars
    /\ [][(pc = "report" /\ IsNaN(magnitude)) => pc' # "done"]_vars

C10_Witness ==
    /\ pc = "report"
    /\ i = 1
    /\ IsNaN(magnitude)
    /\ AllNaN(Theta(regressor))
    /\ n_descend = 2
    /\ ~should_finish

\* the positions of run() inside the for loop
InLoop == pc \in {"base", "grad", "check", "descend", "report"}

\* C11: once the loop has started, run() leaves it only by the break of an
\* iteration whose |magnitude| <= finish_threshold: no exit in an iteration whose
\* |magnitude| > finish_threshold (none from the report/plot step either), the
\* converging iteration always ends the loop, and no iteration follows it.
C11_OnlyConvergenceExits ==
    /\ [](pc = "done" => finished(magnitude, args.finish_threshold))
    /\ [][(InLoop /\ ~InLoop')
             => (/\ pc = "report"
                 /\ finished(magnitude, args.finish_threshold)
                 /\ pc' = "done")]_vars
    /\ [][(pc = "report" /\ finished(magnitude, args.finish_threshold))
             => (pc' = "done" /\ i' = i)]_vars

=============================================================================
